---- MODULE Spec2Model ----
(***************************************************************************)
(* BESC trending bot.  The repository holds several revisions of one       *)
(* script (src/main.js is three of them back to back, src/unnamed/part_*   *)
(* are others).  Every revision has the same publication cycle             *)
(* (postTrending, driven by setInterval) and its own market-data pipeline  *)
(* (fetchPairs / computeTrending / formatTrending).                        *)
(*                                                                         *)
(* Revisions modelled, named by where they live:                           *)
(*   "main_v1"  src/main.js lines   1-149  (token-info trades, fallback,   *)
(*                                          formatter without empty guard) *)
(*   "part_002" src/unnamed/part_002       (Promise.all, fetchPairs has no *)
(*                                          try/catch)                     *)
(*   "part_003" src/unnamed/part_003       (per-pair trades, price change) *)
(*   "main_v3"  src/main.js lines 307-454  (GeckoTerminal pools, quality   *)
(*                                          filter, lastVolumes bursts)    *)
(*                                                                         *)
(* Numbers: amounts are integers (USD).  Scores are kept multiplied by 10  *)
(* so that the weights 0.5 and 0.7 stay integral; comparisons of scores of *)
(* one revision are unaffected.  Price change is in whole percent; the     *)
(* prices drawn make the division exact.                                   *)
(***************************************************************************)
EXTENDS Integers, Sequences, FiniteSets, TLC

\* ------------------------------------------------------------------ bounds
MaxPools == 4        \* pools in one upstream response
TRENDING_SIZE == 2   \* env TRENDING_SIZE (default '5'), kept below MaxPools

\* ------------------------------------------------------------- helpers
Min(a, b) == IF a <= b THEN a ELSE b
Abs(x) == IF x < 0 THEN 0 - x ELSE x

RECURSIVE SumSeq(_)
SumSeq(s) == IF s = <<>> THEN 0 ELSE Head(s) + SumSeq(Tail(s))

MapSeq(s, F(_)) == [i \in 1..Len(s) |-> F(s[i])]

\* Array.prototype.sort with a comparator (b, a) => Key(b) - Key(a): descending
\* by Key, and stable (equal keys keep their input order).
StableSortDesc(s, Key(_)) ==
  LET n == Len(s)
      Pos(i) == Cardinality({j \in 1..n : Key(s[j]) > Key(s[i])})
                + Cardinality({j \in 1..(i - 1) : Key(s[j]) = Key(s[i])}) + 1
  IN  [r \in 1..n |-> s[CHOOSE i \in 1..n : Pos(i) = r]]

\* Array.prototype.slice(0, n)
Slice(s, n) == SubSeq(s, 1, Min(n, Len(s)))

\* --------------------------------------------------- upstream market data
PairScripts == {"main_v1", "part_002", "part_003"}

PoolIds == <<"A", "B", "C", "D", "E">>
Liquidities == {0, 100, 300}

Trade(a, p, r) == [amount |-> a, priceUsd |-> p, recent |-> r]

\* What the upstream knows about one pair: its 24h volume and the trades its
\* trade endpoint returns (recent = inside the polling window).
Activities ==
  { [volume24h |-> 0,  txs |-> <<>>],
    [volume24h |-> 40, txs |-> <<>>],
    [volume24h |-> 40, txs |-> <<Trade(10, 1, TRUE)>>],
    [volume24h |-> 40, txs |-> <<Trade(10, 1, FALSE), Trade(30, 2, TRUE)>>] }

Pair(i, l, a) ==
  [pair |-> PoolIds[i], liquidityUsd |-> l,
   volume24h |-> a.volume24h, txs |-> a.txs]

\* The lists of n pairs /token/pairs/all can return.
PairLists(n) ==
  { [i \in 1..n |-> Pair(i, l[i], a[i])] :
      l \in [1..n -> Liquidities], a \in [1..n -> Activities] }

\* ----------------------------------------------------------- fetchPairs
LiquidityFloorOk(s, p) ==
  IF s = "main_v1" THEN p.liquidityUsd > 0 ELSE p.liquidityUsd >= 100

\* part_002's fetchPairs has no try/catch: the rejected request propagates.
FetchPairsThrows(s, resp) == s = "part_002" /\ ~resp.ok

FetchPairs(s, resp) ==
  IF resp.ok THEN SelectSeq(resp.data, LAMBDA p : LiquidityFloorOk(s, p))
  ELSE <<>>

\* ------------------------------------------------------ computeTrending
RecentTxs(s, p) ==
  IF s = "part_003" THEN p.txs ELSE SelectSeq(p.txs, LAMBDA t : t.recent)

Volume(s, p) ==
  LET shortVol == SumSeq(MapSeq(RecentTxs(s, p), LAMBDA t : t.amount))
  IN  IF s = "part_003"
      THEN IF shortVol > 0 THEN shortVol ELSE p.volume24h
      ELSE shortVol

PriceChange(s, p) ==
  LET txs == RecentTxs(s, p)
      firstPrice == IF txs = <<>> THEN 0 ELSE txs[1].priceUsd
      lastPrice == IF txs = <<>> THEN 0 ELSE txs[Len(txs)].priceUsd
  IN  IF s = "part_003" /\ firstPrice > 0
      THEN (lastPrice * 100) \div firstPrice - 100
      ELSE 0

\* A loop that pushes every pair, against which the activity test is tested.
QualifiesAlways(s, p) == TRUE

\* Whether the loop pushes the pair onto the scored list.
Qualifies(s, p) ==
  LET n == Len(RecentTxs(s, p))
      v == Volume(s, p)
  IN  CASE s = "main_v1" -> n > 0
        [] s = "part_002" -> n > 0 \/ v > 0
        [] OTHER -> ~(v <= 0 /\ n = 0)

Score(s, p) ==
  LET n == Len(RecentTxs(s, p))
      v == Volume(s, p)
  IN  CASE s = "main_v1" -> 7 * v + 150 * n
        [] s = "part_002" -> 5 * v + 150 * n
        [] OTHER -> 5 * v + 150 * n + 400 * Abs(PriceChange(s, p))

ScoredItem(s, p) ==
  [pair |-> p, score |-> Score(s, p), vol |-> Volume(s, p),
   txs |-> Len(RecentTxs(s, p)), priceChange |-> PriceChange(s, p)]

FallbackItem(s, p) ==
  [pair |-> p, score |-> 0,
   vol |-> IF s = "part_003" THEN p.volume24h ELSE 0,
   txs |-> 0, priceChange |-> 0]

Scored(s, pairs) ==
  StableSortDesc(
    MapSeq(SelectSeq(pairs, LAMBDA p : Qualifies(s, p)), LAMBDA p : ScoredItem(s, p)),
    LAMBDA x : x.score)

ComputeTrending(s, pairs) ==
  LET scored == Scored(s, pairs)
  IN  IF scored = <<>>
      THEN [trending |->
              MapSeq(Slice(StableSortDesc(pairs, LAMBDA p : p.liquidityUsd),
                           TRENDING_SIZE),
                     LAMBDA p : FallbackItem(s, p)),
            isFallback |-> TRUE]
      ELSE [trending |-> Slice(scored, TRENDING_SIZE), isFallback |-> FALSE]

\* ------------------------------------------------------- formatTrending
\* The text is kept as its title and the pairs of its blocks, in order.
FormatTrending(s, result) ==
  IF s # "main_v1" /\ result.trending = <<>>
  THEN [title |-> "NoTrending", blocks |-> <<>>]
  ELSE [title |-> IF result.isFallback THEN "QuietMarket" ELSE "Trending",
        blocks |-> MapSeq(result.trending, LAMBDA x : x.pair.pair)]

\* ------------------------------------------- main_v3: GeckoTerminal pools
MaxGeckoPools == 1   \* pools in one GeckoTerminal response

Null == 0            \* let lastPinnedId = null (message ids are positive)
NoVolume == -1       \* lastVolumes has no entry for the address

GeckoIds == <<"A", "B", "C">>
GeckoAddresses == {GeckoIds[i] : i \in 1..Len(GeckoIds)}

\* has_volume_usd: the record carries attributes.volume_usd; isGoodPool reads
\* a.volume_usd.h24 without a guard.
GeckoPool(i, vol) ==
  [address |-> GeckoIds[i], has_volume_usd |-> TRUE,
   reserve_in_usd |-> 5000, volume_h24 |-> vol,
   transactions |-> [present |-> TRUE, buys |-> 3, sells |-> 0],
   ageMinutes |-> 5, change |-> 0]

GeckoVolumes == {500, 1000, 1500}

GeckoResponses ==
  {[ok |-> FALSE, data |-> <<>>]}
  \cup UNION { {[ok |-> TRUE, data |-> [i \in 1..n |-> GeckoPool(i, v[i])]] :
                  v \in [1..n -> GeckoVolumes]} : n \in 0..MaxGeckoPools }

\* const vol = Number(a.volume_usd.h24 || 0) throws a TypeError when the
\* record has no volume_usd; it is evaluated before any rule.
IsGoodPoolThrows(p) == ~p.has_volume_usd

\* A filter that takes a missing transaction breakdown for enough buys,
\* against which the { buys: 0, sells: 0 } default is tested.
IsGoodPoolOpenAt(minLiq, minVol, minBuys, p) ==
  LET txs == IF p.transactions.present THEN p.transactions
             ELSE [present |-> FALSE, buys |-> minBuys, sells |-> 0]
  IN  /\ ~(p.reserve_in_usd < minLiq)
      /\ ~(p.volume_h24 < minVol)
      /\ ~(txs.buys < minBuys)
      /\ ~(txs.sells > txs.buys * 4)
      /\ ~(p.ageMinutes < 5)

\* A filter whose liquidity rule rejects from the floor upwards, against
\* which the direction of the comparison is tested.
IsGoodPoolCeilingAt(minLiq, minVol, minBuys, p) ==
  LET txs == IF p.transactions.present THEN p.transactions
             ELSE [present |-> FALSE, buys |-> 0, sells |-> 0]
  IN  /\ ~(p.reserve_in_usd >= minLiq)
      /\ ~(p.volume_h24 < minVol)
      /\ ~(txs.buys < minBuys)
      /\ ~(txs.sells > txs.buys * 4)
      /\ ~(p.ageMinutes < 5)

\* The rules of isGoodPool with its three minimum literals as arguments.
IsGoodPoolAt(minLiq, minVol, minBuys, p) ==
  LET txs == IF p.transactions.present THEN p.transactions
             ELSE [present |-> FALSE, buys |-> 0, sells |-> 0]
  IN  /\ ~(p.reserve_in_usd < minLiq)
      /\ ~(p.volume_h24 < minVol)
      /\ ~(txs.buys < minBuys)
      /\ ~(txs.sells > txs.buys * 4)
      /\ ~(p.ageMinutes < 5)

IsGoodPool(p) == IsGoodPoolAt(5000, 1000, 3, p)

\* A fetch that hands on every pool of the response, against which the
\* filter is tested.
FetchPoolsUnfiltered(resp) == IF resp.ok THEN resp.data ELSE <<>>

\* (data.data || []).filter(isGoodPool) inside fetchPools' try: a throw of
\* isGoodPool on any record lands in the catch, which returns [].
FetchPools(resp) ==
  IF resp.ok /\ \A i \in 1..Len(resp.data) : ~IsGoodPoolThrows(resp.data[i])
  THEN SelectSeq(resp.data, IsGoodPool)
  ELSE <<>>

\* Math.log1p, in thousandths, on the price changes the model draws.
Log1pMilli(c) == CASE c = 0 -> 0 [] c = 1 -> 693 [] OTHER -> 1099

\* The sort comparator's burst: a missing or zero snapshot entry is falsy.
SortBurst(vols, p) ==
  IF vols[p.address] # NoVolume /\ vols[p.address] # 0
  THEN p.volume_h24 - vols[p.address]
  ELSE 0

\* hotness, in thousandths
Hotness(vols, p) ==
  p.volume_h24 * Log1pMilli(Abs(p.change)) + SortBurst(vols, p) * 1500

\* pools.sort((a, b) => hotnessB - hotnessA)
SortPools(vols, pools) == StableSortDesc(pools, LAMBDA p : Hotness(vols, p))

RankPools(vols, pools) == Slice(SortPools(vols, pools), TRENDING_SIZE)

\* A formatter that starts from an empty table instead of writing into the
\* one it finds, against which the per-entry write is tested.
SnapshotRebuilt(vols, pools) ==
  [a \in GeckoAddresses |->
     IF \E i \in 1..Len(pools) : pools[i].address = a
     THEN (CHOOSE p \in {pools[i] : i \in 1..Len(pools)} : p.address = a).volume_h24
     ELSE NoVolume]

\* formatTrending(pools) of main_v3 writes lastVolumes[a.address] = currentVol
\* for every pool it renders.
SnapshotAfterFormat(vols, pools) ==
  [a \in GeckoAddresses |->
     IF \E i \in 1..Len(pools) : pools[i].address = a
     THEN (CHOOSE p \in {pools[i] : i \in 1..Len(pools)} : p.address = a).volume_h24
     ELSE vols[a]]

\* An annotation computed without looking whether the snapshot has an entry,
\* against which the prevVol !== null test is tested.
BurstLabelUnguarded(vols, p) ==
  IF p.volume_h24 - vols[p.address] > 0
  THEN p.volume_h24 - vols[p.address]
  ELSE 0

\* The burst annotation of one block: 0 stands for no annotation.
BurstLabel(vols, p) ==
  IF vols[p.address] # NoVolume /\ p.volume_h24 - vols[p.address] > 0
  THEN p.volume_h24 - vols[p.address]
  ELSE 0

FormatPools(vols, pools) ==
  IF pools = <<>>
  THEN [title |-> "NoTrending", blocks |-> <<>>]
  ELSE [title |-> "Trending",
        blocks |-> MapSeq(pools, LAMBDA p :
                             [address |-> p.address, vol |-> p.volume_h24,
                              burst |-> BurstLabel(vols, p)])]

\* ------------------------------------------------ publication controller
MaxCycles == 2       \* postTrending invocations in one run (all may overlap)

\* The controller is the same text in every revision; it is run with the two
\* revisions whose pipelines differ in what reaches it: part_002 (a rejected
\* pairs request propagates out of computeTrending) and main_v3 (formatting
\* writes lastVolumes).
CycleScripts == {"part_002", "main_v3"}
Slots == 1..MaxCycles

VARIABLES
  script,         \* the revision this process runs
  alive,          \* the process has not died of an unhandled rejection
  lastPinnedId,   \* let lastPinnedId
  lastVolumes,    \* let lastVolumes (main_v3), address -> volume
  chat,           \* the bot's messages still in the chat
  nextMessageId,  \* the id the channel gives the next message
  started,        \* postTrending invocations so far
  pc,             \* where each pending invocation is suspended
  result,         \* its local result / trending, until it is formatted
  msg,            \* its local msg.message_id
  calls,          \* the channel calls it has issued, in order
  entryHandle,    \* history: lastPinnedId when it tested if (lastPinnedId)
  startVolumes,   \* history: lastVolumes when it was called
  observed,       \* history: the volumes it fetched (main_v3)
  formatted,      \* history: the volumes it rendered (main_v3)
  ended,          \* history: the invocation that returned last
  overlapped,     \* history: a timer tick found an invocation pending
  retractFailed,  \* history: an unpinAll or delete call was rejected
  market,         \* selector run: the upstream response
  selPairs,       \* selector run: const pairs
  selResult,      \* selector run: what computeTrending returned
  selText,        \* selector run: what formatTrending returned
  selPc,          \* selector run: position
  fnCall,         \* function run: the function called and its arguments
  fnRet,          \* function run: what it returned, once it has
  fetchTasks,     \* fetch run: the per-pair fetch promises of one cycle
  scoredPairs,    \* fetch run: the pairs pushed onto `scored`
  parPc           \* fetch run: position of computeTrending

ctlVars ==
  <<script, alive, lastPinnedId, lastVolumes, chat, nextMessageId, started, pc,
    result, msg, calls, entryHandle, startVolumes, observed, formatted, ended,
    overlapped, retractFailed>>
selVars == <<market, selPairs, selResult, selText, selPc>>
fnVars == <<fnCall, fnRet>>
parVars == <<fetchTasks, scoredPairs, parPc>>
vars == <<ctlVars, selVars, fnVars, parVars>>

NoResult == [trending |-> <<>>, isFallback |-> FALSE]
NoText == [title |-> "", blocks |-> <<>>]
EmptyVolumes == [a \in GeckoAddresses |-> NoVolume]
FailedResponse == [ok |-> FALSE, data |-> <<>>]
FailureSites == {"computeTrending", "sendMessage", "pinChatMessage"}

NoneEnded == [outcome |-> "none", formatted |-> EmptyVolumes]

VolumesOf(pools) ==
  [a \in GeckoAddresses |->
     IF \E i \in 1..Len(pools) : pools[i].address = a
     THEN (CHOOSE p \in {pools[i] : i \in 1..Len(pools)} : p.address = a).volume_h24
     ELSE NoVolume]

\* What one cycle's market fetch can come back with.
CycleResponses(s) ==
  IF s = "main_v3" THEN GeckoResponses
  ELSE {FailedResponse, [ok |-> TRUE, data |-> <<>>]}
       \cup {[ok |-> TRUE, data |-> <<Pair(1, 100, a)>>] : a \in Activities}

NotCalled == [done |-> FALSE]
Returned(v) == [done |-> TRUE, value |-> v]

FnIdle ==
  /\ fnCall = [fn |-> "none"]
  /\ fnRet = NotCalled
  /\ fetchTasks = <<>>
  /\ scoredPairs = {}
  /\ parPc = "off"

SelIdle ==
  /\ market = FailedResponse
  /\ selPairs = <<>>
  /\ selResult = NoResult
  /\ selText = NoText
  /\ selPc = "off"

\* The module body has run: setInterval is armed and postTrending() has been
\* called once and is suspended in its first await.
CtlInit ==
  /\ alive = TRUE
  /\ lastPinnedId = Null
  /\ lastVolumes = EmptyVolumes
  /\ chat = {}
  /\ nextMessageId = 1
  /\ started = 1
  /\ pc = [c \in Slots |-> IF c = 1 THEN "fetch" ELSE "idle"]
  /\ result = [c \in Slots |-> NoResult]
  /\ msg = [c \in Slots |-> Null]
  /\ calls = [c \in Slots |-> <<>>]
  /\ entryHandle = [c \in Slots |-> Null]
  /\ startVolumes = [c \in Slots |-> EmptyVolumes]
  /\ observed = [c \in Slots |-> EmptyVolumes]
  /\ formatted = [c \in Slots |-> EmptyVolumes]
  /\ ended = NoneEnded
  /\ overlapped = FALSE
  /\ retractFailed = FALSE

Init ==
  /\ script \in CycleScripts
  /\ CtlInit
  /\ SelIdle
  /\ FnIdle

\* A try block opened only around the channel calls, against which the
\* extent of the real one is tested.
TryCoversChannelOnly(site) == site \in {"sendMessage", "pinChatMessage"}

\* The calls lexically inside postTrending's try block.
TryCovers(site) ==
  site \in {"computeTrending", "sendMessage", "pinChatMessage"}

\* setInterval fires: postTrending() is called, whatever is still pending.
Tick ==
  /\ alive
  /\ started < MaxCycles
  /\ \E c \in Slots :
       /\ pc[c] = "idle"
       /\ \A d \in Slots : pc[d] = "idle" => c <= d
       /\ pc' = [pc EXCEPT ![c] = "fetch"]
       /\ startVolumes' = [startVolumes EXCEPT ![c] = lastVolumes]
  /\ started' = started + 1
  /\ overlapped' = (overlapped \/ \E d \in Slots : pc[d] # "idle")
  /\ UNCHANGED <<script, alive, lastPinnedId, lastVolumes, chat, nextMessageId,
                 result, msg, calls, entryHandle, observed, formatted, ended,
                 retractFailed, selVars, fnVars, parVars>>

\* Invocation c returns (after the try or after the catch): its locals are
\* gone; what it did is kept in `ended`.
Return(c, how) ==
  /\ ended' = [outcome |-> how, formatted |-> formatted[c]]
  /\ pc' = [pc EXCEPT ![c] = "idle"]
  /\ result' = [result EXCEPT ![c] = NoResult]
  /\ msg' = [msg EXCEPT ![c] = Null]
  /\ calls' = [calls EXCEPT ![c] = <<>>]
  /\ entryHandle' = [entryHandle EXCEPT ![c] = Null]
  /\ startVolumes' = [startVolumes EXCEPT ![c] = EmptyVolumes]
  /\ observed' = [observed EXCEPT ![c] = EmptyVolumes]
  /\ formatted' = [formatted EXCEPT ![c] = EmptyVolumes]

\* An awaited call of invocation c rejects at `site`: the catch block logs it
\* and postTrending returns; outside the try it is an unhandled rejection.
Throw(c, site) ==
  /\ Return(c, site)
  /\ alive' = TryCovers(site)

\* formatTrending(result) is evaluated and bot.sendMessage is called.
CallSend(c, res) ==
  /\ lastVolumes' = IF script = "main_v3"
                    THEN SnapshotAfterFormat(lastVolumes, res.trending)
                    ELSE lastVolumes
  /\ formatted' = [formatted EXCEPT ![c] =
                     IF script = "main_v3" THEN VolumesOf(res.trending)
                     ELSE EmptyVolumes]
  /\ calls' = [calls EXCEPT ![c] =
                 Append(@, [op |-> "sendMessage",
                            arg |-> IF script = "main_v3"
                                    THEN FormatPools(lastVolumes, res.trending)
                                    ELSE FormatTrending(script, res)])]
  /\ result' = [result EXCEPT ![c] = NoResult]
  /\ pc' = [pc EXCEPT ![c] = "send"]

\* computeTrending() (main_v3: fetchPools, sort, slice) settles; the code runs
\* on to if (lastPinnedId) and to the next awaited channel call.
FetchSettle(c) ==
  /\ alive
  /\ pc[c] = "fetch"
  /\ \E resp \in CycleResponses(script) :
       IF script # "main_v3" /\ FetchPairsThrows(script, resp)
       THEN /\ Throw(c, "computeTrending")
            /\ UNCHANGED lastVolumes
       ELSE LET res == IF script = "main_v3"
                       THEN [trending |-> RankPools(lastVolumes, FetchPools(resp)),
                             isFallback |-> FALSE]
                       ELSE ComputeTrending(script, FetchPairs(script, resp))
            IN  /\ observed' = [observed EXCEPT ![c] =
                                  IF script = "main_v3" THEN VolumesOf(resp.data)
                                  ELSE EmptyVolumes]
                /\ entryHandle' = [entryHandle EXCEPT ![c] = lastPinnedId]
                /\ IF lastPinnedId # Null
                   THEN /\ calls' = [calls EXCEPT ![c] =
                                       Append(@, [op |-> "unpinAll", arg |-> Null])]
                        /\ result' = [result EXCEPT ![c] = res]
                        /\ pc' = [pc EXCEPT ![c] = "unpin"]
                        /\ UNCHANGED <<lastVolumes, formatted>>
                   ELSE CallSend(c, res)
                /\ UNCHANGED <<alive, msg, startVolumes, ended>>
  /\ UNCHANGED <<script, lastPinnedId, chat, nextMessageId, started, overlapped,
                 retractFailed, selVars, fnVars, parVars>>

\* unpinAllChatMessages settles (a rejection is swallowed by .catch); then
\* deleteMessage is called with lastPinnedId as it is now.
UnpinSettle(c) ==
  /\ alive
  /\ pc[c] = "unpin"
  /\ \E ok \in BOOLEAN : retractFailed' = (retractFailed \/ ~ok)
  /\ calls' = [calls EXCEPT ![c] =
                 Append(@, [op |-> "deleteMessage", arg |-> lastPinnedId])]
  /\ pc' = [pc EXCEPT ![c] = "delete"]
  /\ UNCHANGED <<script, alive, lastPinnedId, lastVolumes, chat, nextMessageId,
                 started, result, msg, entryHandle, startVolumes, observed,
                 formatted, ended, overlapped, selVars, fnVars, parVars>>

\* deleteMessage settles (a rejection is swallowed); then the text is
\* formatted and sent.
DeleteSettle(c) ==
  /\ alive
  /\ pc[c] = "delete"
  /\ \E ok \in BOOLEAN :
       /\ chat' = IF ok THEN chat \ {calls[c][Len(calls[c])].arg} ELSE chat
       /\ retractFailed' = (retractFailed \/ ~ok)
  /\ CallSend(c, result[c])
  /\ UNCHANGED <<script, alive, lastPinnedId, nextMessageId, started, msg,
                 entryHandle, startVolumes, observed, ended, overlapped, selVars, fnVars, parVars>>

\* sendMessage settles: the message exists and pinChatMessage is called, or
\* the rejection is thrown.
SendSettle(c) ==
  /\ alive
  /\ pc[c] = "send"
  /\ \E ok \in BOOLEAN :
       IF ok
       THEN /\ msg' = [msg EXCEPT ![c] = nextMessageId]
            /\ nextMessageId' = nextMessageId + 1
            /\ chat' = chat \cup {nextMessageId}
            /\ calls' = [calls EXCEPT ![c] =
                           Append(@, [op |-> "pinChatMessage", arg |-> nextMessageId])]
            /\ pc' = [pc EXCEPT ![c] = "pin"]
            /\ UNCHANGED <<alive, result, entryHandle, startVolumes, observed,
                           formatted, ended>>
       ELSE /\ Throw(c, "sendMessage")
            /\ UNCHANGED <<nextMessageId, chat>>
  /\ UNCHANGED <<script, lastPinnedId, lastVolumes, started, overlapped,
                 retractFailed, selVars, fnVars, parVars>>

\* A catch block that also clears the handle, against which the real one
\* (which only logs) is tested.
PinSettleResets(c) ==
  /\ alive
  /\ pc[c] = "pin"
  /\ \E ok \in BOOLEAN :
       IF ok
       THEN /\ lastPinnedId' = msg[c]
            /\ Return(c, "posted")
            /\ UNCHANGED alive
       ELSE /\ Throw(c, "pinChatMessage")
            /\ lastPinnedId' = Null
  /\ UNCHANGED <<script, lastVolumes, chat, nextMessageId, started, overlapped,
                 retractFailed, selVars, fnVars, parVars>>

\* pinChatMessage settles: lastPinnedId = msg.message_id, or the rejection is
\* thrown past the assignment.
PinSettle(c) ==
  /\ alive
  /\ pc[c] = "pin"
  /\ \E ok \in BOOLEAN :
       IF ok
       THEN /\ lastPinnedId' = msg[c]
            /\ Return(c, "posted")
            /\ UNCHANGED alive
       ELSE /\ Throw(c, "pinChatMessage")
            /\ UNCHANGED lastPinnedId
  /\ UNCHANGED <<script, lastVolumes, chat, nextMessageId, started, overlapped,
                 retractFailed, selVars, fnVars, parVars>>

Next ==
  \/ Tick
  \/ \E c \in Slots : FetchSettle(c)
  \/ \E c \in Slots : UnpinSettle(c)
  \/ \E c \in Slots : DeleteSettle(c)
  \/ \E c \in Slots : SendSettle(c)
  \/ \E c \in Slots : PinSettle(c)

Spec == Init /\ [][Next]_vars

\* ------------------------------------------------------- selector runs
\* One run of fetchPairs -> computeTrending -> formatTrending of a pair
\* revision on one upstream response; the controller is not involved.
SelInit ==
  /\ script \in PairScripts
  /\ CtlInit
  /\ \/ market = FailedResponse
     \/ \E n \in 0..MaxPools :
          \E l \in [1..n -> Liquidities], a \in [1..n -> Activities] :
            market = [ok |-> TRUE, data |-> [i \in 1..n |-> Pair(i, l[i], a[i])]]
  /\ selPairs = <<>>
  /\ selResult = NoResult
  /\ selText = NoText
  /\ selPc = "fetchPairs"
  /\ FnIdle

SelFetchPairs ==
  /\ selPc = "fetchPairs"
  /\ IF FetchPairsThrows(script, market)
     THEN selPc' = "thrown" /\ UNCHANGED selPairs
     ELSE selPc' = "computeTrending" /\ selPairs' = FetchPairs(script, market)
  /\ UNCHANGED <<ctlVars, fnVars, parVars, market, selResult, selText>>

SelCompute ==
  /\ selPc = "computeTrending"
  /\ selResult' = ComputeTrending(script, selPairs)
  /\ selPc' = "formatTrending"
  /\ UNCHANGED <<ctlVars, fnVars, parVars, market, selPairs, selText>>

SelFormat ==
  /\ selPc = "formatTrending"
  /\ selText' = FormatTrending(script, selResult)
  /\ selPc' = "done"
  /\ UNCHANGED <<ctlVars, fnVars, parVars, market, selPairs, selResult>>

SelNext == SelFetchPairs \/ SelCompute \/ SelFormat

SpecSel == SelInit /\ [][SelNext]_vars

\* -------------------------------------------------------- function runs
\* One call of one function of the program on arguments it can be called
\* with; neither the controller nor the selector is involved.
MaxSorted == 2       \* pools handed to the hotness sort

\* A pool that passed isGoodPool, with its 24h price change in percent.
SortedPool(i, vol, change) == [GeckoPool(i, vol) EXCEPT !.change = change]

\* Snapshots formatTrending can have left: a rendered pool passed the volume
\* floor of isGoodPool, so an entry is missing or at least 1000.
Snapshots == [GeckoAddresses -> {NoVolume, 1000, 1500}]

SortCalls ==
  UNION { { [fn |-> "sortPools", vols |-> v,
             pools |-> [i \in 1..n |-> SortedPool(i, vol[i], ch[i])]] :
              v \in {w \in Snapshots : \A i \in (n + 1)..Len(GeckoIds) :
                                         w[GeckoIds[i]] = NoVolume},
              vol \in [1..n -> {1000, 1500}], ch \in [1..n -> {0, 1}] } :
          n \in 1..MaxSorted }

\* fmtUsd on whole-dollar amounts. toFixed(2) is modelled on amounts whose
\* third decimal is no exact 5, where the float's binary value decides; the
\* text is kept as its number of hundredths and its suffix.
Amounts == {0, 1, 999, 1000, 1001, 1499, 999999, 1000000, 1000001, 1234567}

Money(hundredths, suffix) == [hundredths |-> hundredths, suffix |-> suffix]

\* A band test with > where the code has >=.
FmtUsdStrict(rev, n) ==
  IF n <= 0 THEN Money(IF rev = "main_v1" THEN 0 ELSE n * 100, "")
  ELSE IF n > 1000000 THEN Money((n + 5000) \div 10000, "M")
  ELSE IF n > 1000 THEN Money((n + 5) \div 10, "K")
  ELSE Money(n * 100, "")

FmtUsd(rev, n) ==
  IF n <= 0 THEN Money(IF rev = "main_v1" THEN 0 ELSE n * 100, "")
  ELSE IF n >= 1000000 THEN Money((n + 5000) \div 10000, "M")
  ELSE IF n >= 1000 THEN Money((n + 5) \div 10, "K")
  ELSE Money(n * 100, "")

FmtUsdCalls ==
  {[fn |-> "fmtUsd", rev |-> r, n |-> n] : r \in {"main_v1", "main_v3"}, n \in Amounts}

\* Pool records on both sides of every rule of isGoodPool.
FilterPools ==
  { [address |-> "A", has_volume_usd |-> hv, reserve_in_usd |-> liq,
     volume_h24 |-> vol, transactions |-> tx, ageMinutes |-> age, change |-> 0] :
      hv \in BOOLEAN, liq \in {4999, 5000}, vol \in {999, 1000},
      tx \in {[present |-> FALSE, buys |-> 0, sells |-> 0]}
             \cup {[present |-> TRUE, buys |-> b, sells |-> sl] :
                      b \in {2, 3}, sl \in {0, 13}},
      age \in {4, 5} }

IsGoodPoolCalls == {[fn |-> "isGoodPool", pool |-> p] : p \in FilterPools}

\* The filter evaluated under two settings of its minimums, the second no
\* stricter than the first in any of them.
Minimums ==
  {[liq |-> l, vol |-> v, buys |-> b] : l \in {4999, 5000}, v \in {999, 1000},
                                         b \in {2, 3}}

FilterAtCalls ==
  UNION { {[fn |-> "isGoodPoolAt", pool |-> p, strict |-> m, lax |-> k] :
             p \in {q \in FilterPools : q.has_volume_usd},
             k \in {x \in Minimums :
                      x.liq <= m.liq /\ x.vol <= m.vol /\ x.buys <= m.buys}} :
          m \in Minimums }

\* The trades one pair's transactions request returns; priceUsd 0 stands for
\* a trade without priceUsd, which Number(t?.priceUsd || 0) reads as 0.
MaxTrades == 2       \* trades in one transactions response

TradeLists ==
  UNION { [1..n -> {Trade(10, pr, TRUE) : pr \in {0, 1, 2}}] : n \in 0..MaxTrades }

PriceChangeCalls == {[fn |-> "priceChange", txs |-> t] : t \in TradeLists}

\* Pool responses in which a record may lack volume_usd.
FetchPoolsCalls ==
  UNION { { [fn |-> "fetchPools",
             resp |-> [ok |-> TRUE,
                       data |-> [i \in 1..n |->
                                   [GeckoPool(i, vol[i]) EXCEPT
                                      !.has_volume_usd = hv[i]]]]] :
              vol \in [1..n -> {999, 1000}], hv \in [1..n -> BOOLEAN] } :
          n \in 1..MaxSorted }

\* formatTrending of part_000 and part_001, on the items computeTrending can
\* hand it: token1.symbol present or absent, liquidityUsd a number or a
\* numeric string that passed fetchPairs' safeFloat(p.liquidityUsd) >= 100.
MaxBlocks == 2       \* items handed to formatTrending

FormatRevs == {"part_000", "part_001"}

JsNumber(n) == [type |-> "number", v |-> n]
JsString(n) == [type |-> "string", v |-> n]

FormatItems ==
  [hasSymbol1 : BOOLEAN,
   liquidityUsd : {JsNumber(300), JsNumber(5000), JsString(300), JsString(5000)},
   volUsd : {40}]

FormatLists == UNION {[1..n -> FormatItems] : n \in 0..MaxBlocks}

FormatCalls ==
  {[fn |-> "formatTrending", rev |-> r, trending |-> t] :
     r \in FormatRevs, t \in FormatLists}

\* fmtUsd(n): the two comparisons and the divisions coerce a numeric string,
\* n.toFixed(2) in the last branch exists on numbers only.
FmtUsdThrows(n) == n.type # "number" /\ n.v < 1000

\* `${t0}/${t1}` with t1 = x.pair.token1.symbol, unguarded.
Symbol1(x) == IF x.hasSymbol1 THEN "WBESC" ELSE "undefined"

\* part_001 calls x.pair.tokenunion(), which no pair record has; part_000
\* reads token0.symbol.
FormatPairs(rev, trending) ==
  IF trending = <<>>
  THEN [threw |-> FALSE, title |-> "No trending pairs right now",
        blocks |-> <<>>]
  ELSE IF rev = "part_001"
         \/ \E i \in 1..Len(trending) : FmtUsdThrows(trending[i].liquidityUsd)
  THEN [threw |-> TRUE]
  ELSE [threw |-> FALSE, title |-> "Trending",
        blocks |-> [i \in 1..Len(trending) |->
                     [t1 |-> Symbol1(trending[i]),
                      vol |-> FmtUsd(rev, trending[i].volUsd),
                      lq |-> FmtUsd(rev, trending[i].liquidityUsd.v)]]]

\* One cycle of main_v3 from the pools response to the text handed to
\* sendMessage, on pools at and just under every rule of isGoodPool.
PublishAttributes ==
  [reserve_in_usd : {4999, 5000}, volume_h24 : {999, 1000},
   transactions : {[present |-> FALSE, buys |-> 0, sells |-> 0],
                   [present |-> TRUE, buys |-> 2, sells |-> 0],
                   [present |-> TRUE, buys |-> 3, sells |-> 0],
                   [present |-> TRUE, buys |-> 3, sells |-> 13]},
   ageMinutes : {4, 5}]

PublishPool(i, a) ==
  [address |-> GeckoIds[i], has_volume_usd |-> TRUE,
   reserve_in_usd |-> a.reserve_in_usd, volume_h24 |-> a.volume_h24,
   transactions |-> a.transactions, ageMinutes |-> a.ageMinutes, change |-> 0]

PublishResponses ==
  UNION { {[ok |-> TRUE, data |-> [i \in 1..n |-> PublishPool(i, a[i])]] :
             a \in [1..n -> PublishAttributes]} :
          n \in 0..MaxSorted }

PublishCalls ==
  {[fn |-> "postTrending", resp |-> r, lastVolumes |-> EmptyVolumes] :
     r \in PublishResponses}

FnCalls ==
  SortCalls \cup FmtUsdCalls \cup IsGoodPoolCalls \cup FilterAtCalls
  \cup PriceChangeCalls \cup FetchPoolsCalls \cup FormatCalls
  \cup PublishCalls

FnInit ==
  /\ script = "main_v3"
  /\ CtlInit
  /\ SelIdle
  /\ fnCall \in FnCalls
  /\ fnRet = NotCalled
  /\ fetchTasks = <<>>
  /\ scoredPairs = {}
  /\ parPc = "off"

\* The hotness sort of postTrending; the burst terms its comparator computed
\* are kept next to the order it produced.
RunSortPools ==
  /\ fnCall.fn = "sortPools"
  /\ ~fnRet.done
  /\ fnRet' = Returned(
       [sorted |-> SortPools(fnCall.vols, fnCall.pools),
        bursts |-> [a \in {fnCall.pools[i].address : i \in 1..Len(fnCall.pools)} |->
                     SortBurst(fnCall.vols,
                               CHOOSE p \in {fnCall.pools[i] : i \in 1..Len(fnCall.pools)} :
                                 p.address = a)]])
  /\ UNCHANGED <<ctlVars, selVars, parVars, fnCall>>

RunFmtUsd ==
  /\ fnCall.fn = "fmtUsd"
  /\ ~fnRet.done
  /\ fnRet' = Returned(FmtUsd(fnCall.rev, fnCall.n))
  /\ UNCHANGED <<ctlVars, selVars, parVars, fnCall>>

RunIsGoodPool ==
  /\ fnCall.fn = "isGoodPool"
  /\ ~fnRet.done
  /\ fnRet' = IF IsGoodPoolThrows(fnCall.pool)
               THEN [done |-> TRUE, threw |-> TRUE]
               ELSE [done |-> TRUE, threw |-> FALSE,
                     value |-> IsGoodPool(fnCall.pool)]
  /\ UNCHANGED <<ctlVars, selVars, parVars, fnCall>>

RunIsGoodPoolAt ==
  /\ fnCall.fn = "isGoodPoolAt"
  /\ ~fnRet.done
  /\ fnRet' = Returned(
       [strict |-> IsGoodPoolAt(fnCall.strict.liq, fnCall.strict.vol,
                                fnCall.strict.buys, fnCall.pool),
        lax |-> IsGoodPoolAt(fnCall.lax.liq, fnCall.lax.vol,
                             fnCall.lax.buys, fnCall.pool)])
  /\ UNCHANGED <<ctlVars, selVars, parVars, fnCall>>

\* firstPrice, lastPrice, priceChange of part_003's computeTrending loop.
RunPriceChange ==
  /\ fnCall.fn = "priceChange"
  /\ ~fnRet.done
  /\ fnRet' = Returned(PriceChange("part_003",
                                   [txs |-> fnCall.txs, volume24h |-> 0]))
  /\ UNCHANGED <<ctlVars, selVars, parVars, fnCall>>

RunFetchPools ==
  /\ fnCall.fn = "fetchPools"
  /\ ~fnRet.done
  /\ fnRet' = Returned(FetchPools(fnCall.resp))
  /\ UNCHANGED <<ctlVars, selVars, parVars, fnCall>>

RunFormatPairs ==
  /\ fnCall.fn = "formatTrending"
  /\ ~fnRet.done
  /\ fnRet' = [done |-> TRUE] @@ FormatPairs(fnCall.rev, fnCall.trending)
  /\ UNCHANGED <<ctlVars, selVars, parVars, fnCall>>

\* postTrending of main_v3 up to the sendMessage call: fetchPools, sort,
\* slice, formatTrending.
RunPublish ==
  /\ fnCall.fn = "postTrending"
  /\ ~fnRet.done
  /\ fnRet' = Returned(
       FormatPools(fnCall.lastVolumes,
                   RankPools(fnCall.lastVolumes, FetchPools(fnCall.resp))))
  /\ UNCHANGED <<ctlVars, selVars, parVars, fnCall>>

FnNext ==
  \/ RunFetchPools
  \/ RunPublish
  \/ RunFormatPairs
  \/ RunSortPools
  \/ RunFmtUsd
  \/ RunIsGoodPool
  \/ RunIsGoodPoolAt
  \/ RunPriceChange

SpecFn == FnInit /\ [][FnNext]_vars

\* ----------------------------------------------------------- fetch runs
\* The per-pair fetches of one computeTrending call and the scoring that
\* follows them. part_004 issues every fetchTokenInfo at once and awaits
\* Promise.all; part_003 awaits fetchRecentTransactions pair by pair inside
\* the scoring loop. Both fetch functions catch their own failure, so a task
\* settles as fulfilled (trades) or failed (null / []), never rejects.
ParScripts == {"part_004", "part_003"}

Issued(tasks) == {i \in 1..Len(tasks) : tasks[i] # "unissued"}
PendingTasks(tasks) == {i \in 1..Len(tasks) : tasks[i] = "pending"}

\* A continuation that runs as soon as one task has settled (Promise.race),
\* against which Promise.all is tested.
SomeSettled(tasks) ==
  tasks = <<>> \/ \E i \in 1..Len(tasks) : tasks[i] \in {"fulfilled", "failed"}

\* await Promise.all(pairs.map(...)) resumes once every task has settled.
AllSettled(tasks) ==
  \A i \in 1..Len(tasks) : tasks[i] \in {"fulfilled", "failed"}

ParInit ==
  /\ script \in ParScripts
  /\ CtlInit
  /\ SelIdle
  /\ fnCall = [fn |-> "none"]
  /\ fnRet = NotCalled
  /\ \E n \in 0..MaxPools :
       fetchTasks = [i \in 1..n |->
                       IF script = "part_004" \/ i = 1 THEN "pending"
                       ELSE "unissued"]
  /\ scoredPairs = {}
  /\ parPc = "await"

\* One fetch settles, with trades or with its failure caught.
TaskSettle(i) ==
  /\ parPc = "await"
  /\ i \in PendingTasks(fetchTasks)
  /\ \E how \in {"fulfilled", "failed"} :
       fetchTasks' = [fetchTasks EXCEPT ![i] = how]
  /\ UNCHANGED <<ctlVars, selVars, fnVars, scoredPairs, parPc>>

\* part_004: Promise.all has resolved; the loop scores every pair that has
\* trades and the list is sorted.
ScoreAll ==
  /\ script = "part_004"
  /\ parPc = "await"
  /\ AllSettled(fetchTasks)
  /\ scoredPairs' = {i \in 1..Len(fetchTasks) : fetchTasks[i] = "fulfilled"}
  /\ parPc' = "ranked"
  /\ UNCHANGED <<ctlVars, selVars, fnVars, fetchTasks>>

\* part_003: the awaited fetch of the loop's pair has settled; the pair is
\* scored if it has trades or a 24h volume, and the next pair's fetch is
\* issued or, after the last pair, the list is sorted.
ScoreNext ==
  /\ script = "part_003"
  /\ parPc = "await"
  /\ PendingTasks(fetchTasks) = {}
  /\ LET k == Cardinality(Issued(fetchTasks))
     IN  /\ \E volume24h \in {0, 40} :
              scoredPairs' =
                IF k > 0 /\ (fetchTasks[k] = "fulfilled" \/ volume24h > 0)
                THEN scoredPairs \cup {k} ELSE scoredPairs
         /\ IF k < Len(fetchTasks)
            THEN /\ fetchTasks' = [fetchTasks EXCEPT ![k + 1] = "pending"]
                 /\ UNCHANGED parPc
            ELSE /\ parPc' = "ranked"
                 /\ UNCHANGED fetchTasks
  /\ UNCHANGED <<ctlVars, selVars, fnVars>>

ParNext ==
  \/ \E i \in 1..MaxPools : TaskSettle(i)
  \/ ScoreAll
  \/ ScoreNext

SpecPar == ParInit /\ [][ParNext]_vars

\* ====================================================================
\* Properties of the publication cycle (specification Spec)
\* ====================================================================
Pending == {c \in Slots : pc[c] # "idle"}

\* Invocation c returns in this step.
Returns(c) == pc[c] # "idle" /\ pc'[c] = "idle"

\* Invocation c evaluates formatTrending and calls sendMessage in this step.
Formats(c) == pc[c] \in {"fetch", "delete"} /\ pc'[c] = "send"

\* C1: at most one publication cycle is in flight at any time; a timer tick
\* that finds a cycle pending does not start another one.
C1_OneCycleInFlight == Cardinality(Pending) <= 1

\* C2: a failure raised in any phase of a cycle is caught inside postTrending:
\* the process stays alive, the failed invocation is no longer pending, and
\* the timer can still start the next cycle.
C2_FailuresAreCaught ==
  /\ alive
  /\ ended.outcome \in FailureSites => Cardinality(Pending) < started
  /\ started < MaxCycles => ENABLED Tick

\* A cycle failed in computeTrending (the pairs request was rejected), it
\* overlapped with no other, and a later tick has started a new cycle.
C2_Witness ==
  /\ ~overlapped
  /\ ended.outcome = "computeTrending"
  /\ Pending # {}

\* C3: once sendMessage has succeeded the cycle completes as successful and the
\* new message's id is the stored handle, even if pinChatMessage fails.
C3_SendAloneDecides ==
  [][\A c \in Slots :
       (Returns(c) /\ msg[c] # Null) =>
         (ended'.outcome = "posted" /\ lastPinnedId' = msg[c])]_vars

\* C4: a cycle that reaches Publishing with a previous handle calls unpinAll,
\* delete(previous handle), sendMessage in that order, without a handle it
\* calls neither unpinAll nor delete, and after a successful send the stored
\* handle is the id of the message just sent.
C4_RetractThenPublish ==
  [][\A c \in Slots :
       Returns(c) =>
         LET k == calls[c]
         IN  /\ (k # <<>> /\ entryHandle[c] # Null) =>
                  /\ Len(k) >= 3
                  /\ k[1].op = "unpinAll"
                  /\ k[2] = [op |-> "deleteMessage", arg |-> entryHandle[c]]
                  /\ k[3].op = "sendMessage"
             /\ entryHandle[c] = Null =>
                  \A i \in 1..Len(k) : k[i].op \notin {"unpinAll", "deleteMessage"}
             /\ msg[c] # Null => lastPinnedId' = msg[c]]_vars

\* C5: after non-overlapping cycles in which unpinAll and delete never failed,
\* when no cycle is pending at most one summary of the bot is left in the
\* chat, and it is the one lastPinnedId names.
C5_OneSummaryLeft ==
  (Pending = {} /\ ~overlapped /\ ~retractFailed) =>
    /\ Cardinality(chat) <= 1
    /\ chat # {} => chat = {lastPinnedId}

\* C6: when a cycle returns, lastVolumes holds, for every pool the
\* cycle observed, the volume it observed.
C6_EveryObservedPoolRecorded ==
  [][\A c \in Slots :
       Returns(c) =>
         \A a \in GeckoAddresses :
           observed[c][a] # NoVolume => lastVolumes'[a] = observed[c][a]]_vars

\* C7 as stated: when a cycle fails, every lastVolumes entry has the value it
\* had when the cycle started.
C7_FailedCycleRestoresSnapshot ==
  [][\A c \in Slots :
       (Returns(c) /\ ended'.outcome \in FailureSites) =>
         lastVolumes' = startVolumes[c]]_vars

\* C7 amended: a failing cycle changes only the entries of the pools it
\* rendered: formatting writes the rendered volume of each rendered pool and
\* leaves every other entry alone, no other step of any cycle writes the
\* snapshot, and the step in which the cycle fails changes no entry, so what
\* formatting wrote is kept, not discarded.
C7_FailedCycleKeepsRendered ==
  [][/\ \A c \in Slots :
          Formats(c) =>
            \A a \in GeckoAddresses :
              lastVolumes'[a] = IF formatted'[c][a] = NoVolume
                                THEN lastVolumes[a]
                                ELSE formatted'[c][a]
     /\ lastVolumes' # lastVolumes => \E c \in Slots : Formats(c)
     /\ \A c \in Slots :
          (Returns(c) /\ ended'.outcome \in FailureSites) =>
            lastVolumes' = lastVolumes]_vars

\* A cycle rendered a pool and then sendMessage was rejected; the entry it
\* wrote is still in the snapshot.
C7_Witness ==
  /\ ended.outcome = "sendMessage"
  /\ \E a \in GeckoAddresses :
       ended.formatted[a] # NoVolume /\ lastVolumes[a] = ended.formatted[a]

\* ====================================================================
\* Properties of the selector (specification SpecSel)
\* ====================================================================
Selected == selPc \in {"formatTrending", "done"}

Range(q) == {q[i] : i \in 1..Len(q)}

\* The pairs of the result, in order.
Items == MapSeq(selResult.trending, LAMBDA x : x.pair)

\* A pair with recent trades or volume: score > 0 or txCount > 0.
Active(p) == Len(RecentTxs(script, p)) > 0 \/ Score(script, p) > 0

\* q lists Min(TRENDING_SIZE, |from|) distinct members of `from`, in descending
\* Key order, and no member left out has a strictly higher Key than one listed.
IsTopOf(q, from, Key(_)) ==
  /\ Len(q) = Min(TRENDING_SIZE, Cardinality(from))
  /\ Range(q) \subseteq from
  /\ \A i, j \in 1..Len(q) : i < j => (q[i] # q[j] /\ Key(q[i]) >= Key(q[j]))
  /\ \A p \in from \ Range(q) : \A i \in 1..Len(q) : Key(p) <= Key(q[i])

\* C8: when the ranked list is empty the result is a fallback whose
\* items are the top n of the unfiltered pool list by descending liquidity,
\* pools the liquidity pre-filter rejects included.
C8_FallbackOverUnfiltered ==
  (Selected /\ \A p \in Range(selPairs) : ~Active(p)) =>
    /\ selResult.isFallback
    /\ IsTopOf(Items, Range(market.data), LAMBDA p : p.liquidityUsd)

\* C9: when a candidate qualifies the result is no fallback and its items are
\* exactly the min(n, count) highest-scored candidates in descending score
\* order; a pool with neither recent trades nor volume is never listed, and
\* never more than n items.
C9_TopScoredCandidates ==
  (Selected /\ \E p \in Range(selPairs) : Active(p)) =>
    /\ ~selResult.isFallback
    /\ IsTopOf(Items, {p \in Range(selPairs) : Active(p)},
               LAMBDA p : Score(script, p))
    /\ Len(selResult.trending) <= TRENDING_SIZE
    /\ \A i \in 1..Len(selResult.trending) :
         LET x == selResult.trending[i]
         IN  /\ x.score = Score(script, x.pair)
             /\ x.txs > 0 \/ x.vol > 0

\* More candidates qualified than fit, with different scores, next to a pool
\* without any activity.
C9_Witness ==
  /\ selPc = "done"
  /\ ~selResult.isFallback
  /\ Cardinality({p \in Range(selPairs) : Active(p)}) > TRENDING_SIZE
  /\ \E p, q \in Range(selPairs) :
       Active(p) /\ Active(q) /\ Score(script, p) # Score(script, q)
  /\ \E p \in Range(selPairs) : ~Active(p)

\* C10: when the ranked list and the pool list are both empty the selector
\* returns an empty fallback and the text is the "no data" message, neither
\* the Trending nor the Quiet Market title.
C10_NoDataMessage ==
  (selPc = "done" /\ selPairs = <<>>) =>
    /\ selResult = [trending |-> <<>>, isFallback |-> TRUE]
    /\ selText.title = "NoTrending"

\* ====================================================================
\* Properties of the formatted text across cycles (specification Spec)
\* ====================================================================
\* The text invocation c hands to sendMessage, once it has formatted it.
SentText(c) == calls[c][Len(calls[c])].arg

\* No invocation has formatted a text yet.
NothingFormatted ==
  /\ ended = NoneEnded
  /\ \A c \in Slots : pc[c] \notin {"send", "pin"}

\* C11: the block of pool A carries a burst annotation exactly when the
\* snapshot holds a volume for A, written by a cycle that formatted before,
\* and the current volume is greater; the amount is current minus recorded;
\* the first text formatted after process start carries no annotation.
C11_BurstAcrossCycles ==
  [][\A c \in Slots :
       (Formats(c) /\ script = "main_v3") =>
         LET text == calls'[c][Len(calls'[c])].arg
         IN  /\ \A i \in 1..Len(text.blocks) :
                  LET b == text.blocks[i]
                      recorded == lastVolumes[b.address]
                  IN  b.burst = IF recorded # NoVolume /\ b.vol > recorded
                                THEN b.vol - recorded
                                ELSE 0
             /\ NothingFormatted =>
                  \A i \in 1..Len(text.blocks) : text.blocks[i].burst = 0]_vars

\* A cycle recorded 1,000 for a pool and a later one renders it with 1,500:
\* the block is annotated with 500.
C11_Witness ==
  /\ script = "main_v3"
  /\ ended.outcome # "none"
  /\ \E a \in GeckoAddresses : ended.formatted[a] = 1000
  /\ \E c \in Slots :
       /\ pc[c] = "send"
       /\ \E i \in 1..Len(SentText(c).blocks) :
            /\ SentText(c).blocks[i].vol = 1500
            /\ SentText(c).blocks[i].burst = 500

\* ====================================================================
\* Properties of single functions (specification SpecFn)
\* ====================================================================
Ran(f) == fnCall.fn = f /\ fnRet.done

\* burst = max(0, currentVolume - previousCycleVolume), a missing previous
\* volume giving 0.
ClippedBurst(vols, p) ==
  IF vols[p.address] # NoVolume /\ p.volume_h24 > vols[p.address]
  THEN p.volume_h24 - vols[p.address]
  ELSE 0

\* C12: the burst term of the hotness sort is max(0, current - previous): it
\* is never negative, and a pool whose volume fell is ranked as with burst 0.
C12_BurstTermClipped ==
  Ran("sortPools") =>
    /\ \A i \in 1..Len(fnCall.pools) :
         LET p == fnCall.pools[i]
         IN  /\ fnRet.value.bursts[p.address] >= 0
             /\ fnRet.value.bursts[p.address] = ClippedBurst(fnCall.vols, p)
    /\ fnRet.value.sorted =
         StableSortDesc(fnCall.pools,
                        LAMBDA p : p.volume_h24 * Log1pMilli(Abs(p.change))
                                   + ClippedBurst(fnCall.vols, p) * 1500)

\* C13: every non-negative amount falls in exactly one band by the >= rule:
\* M from 1,000,000, K from 1,000 to below 1,000,000, plain below 1,000;
\* 1,000 gives $1.00K, 999 gives $999.00 and 1,000,000 gives $1.00M.
C13_BandsByGeq ==
  Ran("fmtUsd") =>
    LET n == fnCall.n
        v == fnRet.value
    IN  /\ v.suffix = "M" <=> n >= 1000000
        /\ v.suffix = "K" <=> (n >= 1000 /\ n < 1000000)
        /\ v.suffix = "" <=> n < 1000
        /\ n = 1000 => v = Money(100, "K")
        /\ n = 999 => v = Money(99900, "")
        /\ n = 1000000 => v = Money(100, "M")

\* fmtUsd(1000) has returned $1.00K.
C13_Witness == Ran("fmtUsd") /\ fnCall.n = 1000 /\ fnRet.value = Money(100, "K")

\* C14: a pool accepted with minimum liquidity L, minimum volume V and
\* minimum buys B is accepted with any minimums L' <= L, V' <= V, B' <= B.
C14_FilterMonotone ==
  Ran("isGoodPoolAt") => (fnRet.value.strict => fnRet.value.lax)

\* A pool accepted under the stricter minimums and under strictly laxer ones.
C14_Witness ==
  /\ Ran("isGoodPoolAt")
  /\ fnRet.value.strict /\ fnRet.value.lax
  /\ fnCall.lax.liq < fnCall.strict.liq
  /\ fnCall.lax.vol < fnCall.strict.vol
  /\ fnCall.lax.buys < fnCall.strict.buys

\* C15: a pool without a transaction breakdown counts as buys = 0, sells = 0
\* and is rejected, whatever its liquidity, volume and age, without raising.
C15_FailsClosed ==
  (Ran("isGoodPool") /\ fnCall.pool.has_volume_usd
                     /\ ~fnCall.pool.transactions.present) =>
    (~fnRet.threw /\ fnRet.value = FALSE)

\* A pool that clears the liquidity, volume and age rules but has no
\* transaction breakdown has been rejected.
C15_Witness ==
  /\ Ran("isGoodPool")
  /\ ~fnCall.pool.transactions.present
  /\ fnCall.pool.has_volume_usd
  /\ fnCall.pool.reserve_in_usd >= 5000
  /\ fnCall.pool.volume_h24 >= 1000
  /\ fnCall.pool.ageMinutes >= 5
  /\ ~fnRet.threw /\ fnRet.value = FALSE

\* ====================================================================
\* Further properties of the selector (specification SpecSel)
\* ====================================================================
\* The place of a pair's identity string in ascending order.
IdRank(p) == CHOOSE i \in 1..Len(PoolIds) : PoolIds[i] = p.pair

\* x ranks before y by descending score, then descending liquidityUsd, then
\* ascending identity.
RanksBefore(x, y) ==
  \/ x.score > y.score
  \/ x.score = y.score /\ x.pair.liquidityUsd > y.pair.liquidityUsd
  \/ /\ x.score = y.score
     /\ x.pair.liquidityUsd = y.pair.liquidityUsd
     /\ IdRank(x.pair) < IdRank(y.pair)

\* C16: the ranked candidates are in the one order their scores, liquidities
\* and identities fix, whatever order the gateway returned them in.
C16_OrderFixedByCandidates ==
  (Selected /\ ~selResult.isFallback) =>
    \A i, j \in 1..Len(selResult.trending) :
      i < j => RanksBefore(selResult.trending[i], selResult.trending[j])

\* ====================================================================
\* Further properties of single functions (specification SpecFn)
\* ====================================================================
\* C17: priceChangePct is 0 when fewer than 2 trades carry a price (also when
\* only the first or only the last does) and when firstPrice is 0; otherwise
\* it is ((lastPrice / firstPrice) - 1) * 100.
C17_PriceChangeGuarded ==
  Ran("priceChange") =>
    LET txs == fnCall.txs
        priced == Cardinality({i \in 1..Len(txs) : txs[i].priceUsd > 0})
    IN  fnRet.value =
          IF priced < 2 \/ txs[1].priceUsd = 0
          THEN 0
          ELSE (txs[Len(txs)].priceUsd * 100) \div txs[1].priceUsd - 100

\* C18: a malformed pool record is dropped alone: every well-formed sibling
\* of the response that passes the filter is still in what fetchPools returns.
C18_MalformedRecordIsolated ==
  Ran("fetchPools") =>
    \A i \in 1..Len(fnCall.resp.data) :
      LET p == fnCall.resp.data[i]
      IN  (~IsGoodPoolThrows(p) /\ IsGoodPool(p)) =>
            \E j \in 1..Len(fnRet.value) : fnRet.value[j] = p

\* ====================================================================
\* Properties of the gateway and of the fetches of a cycle
\* ====================================================================
\* C19: the gateway never raises to the controller: whatever the upstream
\* answers, the cycle goes on from its fetch to Publishing (the retraction of
\* the previous message or sendMessage).
C19_GatewayNeverRaises ==
  [][\A c \in Slots :
       (pc[c] = "fetch" /\ pc'[c] # "fetch") => pc'[c] \in {"unpin", "send"}]_vars

\* C20: no pair is scored and the list is not ranked while a fetch issued
\* for the cycle is still pending.
C20_ScoringAfterFetches ==
  [][(scoredPairs' # scoredPairs \/ (parPc' = "ranked" /\ parPc # "ranked")) =>
       PendingTasks(fetchTasks) = {}]_vars

\* Fetches issued together have all settled, one of them with a caught
\* failure, and the pairs with trades have been scored.
C20_Witness ==
  /\ script = "part_004"
  /\ parPc = "ranked"
  /\ Len(fetchTasks) >= 2
  /\ scoredPairs # {}
  /\ \E i \in 1..Len(fetchTasks) : fetchTasks[i] = "failed"

\* C21: the formatter never throws on missing optional fields: for every
\* non-empty result it returns blocks, with '?' where token1.symbol is absent.
C21_FormatterNeverThrows ==
  (Ran("formatTrending") /\ fnCall.trending # <<>>) =>
    /\ ~fnRet.threw
    /\ \A i \in 1..Len(fnCall.trending) :
         fnRet.blocks[i].t1 =
           IF fnCall.trending[i].hasSymbol1 THEN "WBESC" ELSE "?"

\* C22: lastPinnedId changes only in the step that ends a cycle whose
\* sendMessage and pinChatMessage both succeeded, and becomes the id of the
\* message that cycle sent; a cycle that ends any other way leaves it as it
\* is, and it never goes back to null.
C22_HandleSetOnlyByPostedCycle ==
  [][/\ lastPinnedId' # lastPinnedId =>
          \E c \in Slots :
            /\ pc[c] = "pin"
            /\ Returns(c)
            /\ ended'.outcome = "posted"
            /\ msg[c] # Null
            /\ msg[c] \in chat
            /\ lastPinnedId' = msg[c]
     /\ \A c \in Slots :
          (Returns(c) /\ ended'.outcome # "posted") =>
            lastPinnedId' = lastPinnedId
     /\ lastPinnedId # Null => lastPinnedId' # Null]_vars

\* A cycle has failed at pinChatMessage after the message the handle names
\* was deleted: the handle still names it.
C22_Witness ==
  /\ ended.outcome = "pinChatMessage"
  /\ lastPinnedId # Null
  /\ lastPinnedId \notin chat

\* The record of the cycle's response that a block of the text names.
PoolOf(resp, block) ==
  CHOOSE p \in Range(resp.data) : p.address = block.address

\* None of the five rejection rules applies to the record as fetched.
PassesRules(p) ==
  /\ p.reserve_in_usd >= 5000
  /\ p.volume_h24 >= 1000
  /\ p.transactions.present
  /\ p.transactions.buys >= 3
  /\ p.transactions.sells <= 4 * p.transactions.buys
  /\ p.ageMinutes >= 5

\* C23: in the filtered-pool variant every pool listed in the text handed to
\* sendMessage is a pool of that cycle's response that no rule of isGoodPool
\* rejects, and when no pool passes the text is the 'no trending pools'
\* message without any block.
C23_PublishedPoolsPassedFilter ==
  Ran("postTrending") =>
    /\ \A k \in 1..Len(fnRet.value.blocks) :
         /\ \E p \in Range(fnCall.resp.data) :
              p.address = fnRet.value.blocks[k].address
         /\ PassesRules(PoolOf(fnCall.resp, fnRet.value.blocks[k]))
    /\ (\A p \in Range(fnCall.resp.data) : ~PassesRules(p)) =>
         fnRet.value = [title |-> "NoTrending", blocks |-> <<>>]

\* A response with a pool that passes and a pool under the volume floor has
\* been formatted: only the first is listed.
C23_Witness ==
  /\ Ran("postTrending")
  /\ Len(fnCall.resp.data) = 2
  /\ PassesRules(fnCall.resp.data[2])
  /\ fnCall.resp.data[1].volume_h24 < 1000
  /\ Len(fnRet.value.blocks) = 1
  /\ fnRet.value.blocks[1].address = fnCall.resp.data[2].address

====
